---------------------------- MODULE Spec2Model ----------------------------
(***************************************************************************)
(* A model of the mab Lua parser (src/src/parser.rs, src/src/ast.rs).      *)
(*                                                                         *)
(* The parser is a pure function from a token sequence to a tree, so the   *)
(* state machine draws a token sequence, runs parse_from_tokens on it and   *)
(* records the result.  The node-id allocator gen_id is the one piece of   *)
(* shared mutable state; it is modelled by threads that call it.           *)
(*                                                                         *)
(* The combinator framework (parser_core) and the tokenizer are not part   *)
(* of the sources at hand.  The combinators are modelled from the design   *)
(* document; the token kinds are the ones parser.rs matches on.            *)
(***************************************************************************)
EXTENDS Integers, Sequences, FiniteSets, TLC

VARIABLES
    tokens,     \* the token slice handed to parse_from_tokens
    shape,      \* how the token slice was put together (the input's parts)
    phase,      \* "ready" before the parse, "done" after it
    result,     \* what parse_from_tokens returned
    next_id,    \* the NEXT_ID counter
    pc,         \* per thread: where it is inside gen_id
    ret,        \* per thread: the value its fetch_add read
    issued,     \* per thread: the ids gen_id has returned to it, in order
    before      \* per thread: the ids already returned when its call started

vars == <<tokens, shape, phase, result, next_id, pc, ret, issued, before>>

parseVars == <<tokens, shape, phase, result>>
idVars == <<next_id, pc, ret, issued, before>>

-----------------------------------------------------------------------------
(* Tokens: the kinds parser.rs matches on.                                 *)

Keyword(text) == [kind |-> "Keyword", text |-> text]
Identifier(text) == [kind |-> "Identifier", text |-> text]
Operator(text) == [kind |-> "Operator", text |-> text]
NumberLiteral(text) == [kind |-> "NumberLiteral", text |-> text]
OpenParen == [kind |-> "OpenParen", text |-> "("]
CloseParen == [kind |-> "CloseParen", text |-> ")"]

(* Option<T>.                                                              *)
None == [some |-> FALSE]
Some(value) == [some |-> TRUE, value |-> value]

-----------------------------------------------------------------------------
(* The token cursor.                                                       *)

ParseState_new(toks) == [tokens |-> toks, position |-> 0]

peek(state) ==
    IF state.position < Len(state.tokens)
    THEN Some(state.tokens[state.position + 1])
    ELSE None

advance(state, n) == [state EXCEPT !.position = @ + n]

(* Result<(ParseState, T), ParseAbort>.                                    *)
Ok(state, value) == [tag |-> "Ok", state |-> state, value |-> value]
NoMatch == [tag |-> "NoMatch"]
Error(message) == [tag |-> "Error", message |-> message]

-----------------------------------------------------------------------------
(* Parsers as values, as the Rust structs are: ParseOperator(","),         *)
(* ZeroOrMore(ParseStatement), ...  parse(p, state) is p.parse(state).     *)

P(name) == [name |-> name]
PToken(kind) == [name |-> "ParseToken", kind |-> kind]
PKeyword(text) == [name |-> "ParseKeyword", text |-> text]
POperator(text) == [name |-> "ParseOperator", text |-> text]
POr(parsers) == [name |-> "Or", parsers |-> parsers]
POptional(p) == [name |-> "Optional", parser |-> p]
PDelimitedZeroOrMore(p, sep, allow_trailing) ==
    [name |-> "DelimitedZeroOrMore", parser |-> p, delimiter |-> sep,
     allow_trailing |-> allow_trailing]
PDelimitedOneOrMore(p, sep) ==
    [name |-> "DelimitedOneOrMore", parser |-> p, delimiter |-> sep]

RECURSIVE parse(_, _)

(* let (state, a) = A.parse(state)?; let (state, b) = B.parse(state)?; ... *)
(* The parsers one after the other, each from where the one before it      *)
(* stopped; the first failure is the result, else the values in order.     *)
RECURSIVE SequenceFrom(_, _, _, _)
RECURSIVE SequenceNext(_, _, _, _)
SequenceFrom(parsers, i, state, values) ==
    IF i > Len(parsers) THEN Ok(state, values)
    ELSE SequenceNext(parsers, i, values, parse(parsers[i], state))

SequenceNext(parsers, i, values, r) ==
    IF r.tag # "Ok" THEN r
    ELSE SequenceFrom(parsers, i + 1, r.state, Append(values, r.value))

Sequence(parsers, state) == SequenceFrom(parsers, 1, state, <<>>)

(* Optional(P): absent and the cursor unchanged on NoMatch; an Error is     *)
(* passed on.                                                              *)
OptionalOf(r, state) ==
    CASE r.tag = "Ok" -> Ok(r.state, Some(r.value))
      [] r.tag = "NoMatch" -> Ok(state, None)
      [] OTHER -> r

Optional(p, state) == OptionalOf(parse(p, state), state)

(* ZeroOrMore(P): repeat P until it reports NoMatch; an Error is passed on. *)
RECURSIVE ZeroOrMoreLoop(_, _, _)
RECURSIVE ZeroOrMoreNext(_, _, _, _)
ZeroOrMoreLoop(p, state, values) == ZeroOrMoreNext(p, state, values, parse(p, state))

ZeroOrMoreNext(p, state, values, r) ==
    CASE r.tag = "Ok" -> ZeroOrMoreLoop(p, r.state, Append(values, r.value))
      [] r.tag = "NoMatch" -> Ok(state, values)
      [] OTHER -> r

ZeroOrMore(p, state) == ZeroOrMoreLoop(p, state, <<>>)

(* The (Sep, P) repetitions of the delimited lists.  A separator with no   *)
(* item after it ends the list when allow_trailing (the separator stays    *)
(* consumed), and is an Error otherwise.                                   *)
ExpectedItem == [text |-> "Expected an item after the delimiter", token |-> None]

RECURSIVE DelimitedLoop(_, _, _, _, _)
RECURSIVE DelimitedAfterSep(_, _, _, _, _, _)
RECURSIVE DelimitedAfterItem(_, _, _, _, _, _)
DelimitedLoop(p, sep, allow_trailing, state, values) ==
    DelimitedAfterSep(p, sep, allow_trailing, state, values, parse(sep, state))

DelimitedAfterSep(p, sep, allow_trailing, state, values, d) ==
    CASE d.tag = "NoMatch" -> Ok(state, values)
      [] d.tag = "Error" -> d
      [] OTHER -> DelimitedAfterItem(p, sep, allow_trailing, d.state, values,
                                     parse(p, d.state))

DelimitedAfterItem(p, sep, allow_trailing, state, values, r) ==
    CASE r.tag = "Ok" ->
           DelimitedLoop(p, sep, allow_trailing, r.state, Append(values, r.value))
      [] r.tag = "NoMatch" ->
           IF allow_trailing THEN Ok(state, values) ELSE Error(ExpectedItem)
      [] OTHER -> r

(* DelimitedZeroOrMore(P, Sep, allow_trailing): no first item is an empty  *)
(* list.                                                                   *)
DelimitedFirst(p, sep, allow_trailing, state, r) ==
    CASE r.tag = "Ok" -> DelimitedLoop(p, sep, allow_trailing, r.state, <<r.value>>)
      [] r.tag = "NoMatch" -> Ok(state, <<>>)
      [] OTHER -> r

DelimitedZeroOrMore(p, sep, allow_trailing, state) ==
    DelimitedFirst(p, sep, allow_trailing, state, parse(p, state))

(* DelimitedOneOrMore(P, Sep): at least one item, no trailing separator.    *)
DelimitedOneFirst(p, sep, r) ==
    CASE r.tag = "Ok" -> DelimitedLoop(p, sep, FALSE, r.state, <<r.value>>)
      [] OTHER -> r

DelimitedOneOrMore(p, sep, state) == DelimitedOneFirst(p, sep, parse(p, state))

(* Or(list): the alternatives in listed order; the first Ok wins, an Error  *)
(* is passed on at once.                                                   *)
RECURSIVE OrFrom(_, _, _)
RECURSIVE OrNext(_, _, _, _)
OrFrom(parsers, i, state) ==
    IF i > Len(parsers) THEN NoMatch
    ELSE OrNext(parsers, i, state, parse(parsers[i], state))

OrNext(parsers, i, state, r) ==
    IF r.tag = "NoMatch" THEN OrFrom(parsers, i + 1, state) ELSE r

Or(parsers, state) == OrFrom(parsers, 1, state)

(* parse_first_of!(state, { Parser => Constructor, ... }): as Or, the       *)
(* value of the alternative that matched wrapped in its constructor.       *)
RECURSIVE parse_first_of_from(_, _, _)
RECURSIVE parse_first_of_next(_, _, _, _)
parse_first_of_from(state, alternatives, i) ==
    IF i > Len(alternatives) THEN NoMatch
    ELSE parse_first_of_next(state, alternatives, i, parse(alternatives[i][1], state))

parse_first_of_next(state, alternatives, i, r) ==
    CASE r.tag = "Ok" -> Ok(r.state, [node |-> alternatives[i][2], value |-> r.value])
      [] r.tag = "NoMatch" -> parse_first_of_from(state, alternatives, i + 1)
      [] OTHER -> r

parse_first_of(state, alternatives) == parse_first_of_from(state, alternatives, 1)

-----------------------------------------------------------------------------
(* The leaf parsers.                                                       *)

TokenIs(t, kind, state) ==
    IF t.some
    THEN IF t.value = kind THEN Ok(advance(state, 1), t.value) ELSE NoMatch
    ELSE NoMatch

ParseToken(kind, state) == TokenIs(peek(state), kind, state)

TextOf(t, kind, state) ==
    IF t.some /\ t.value.kind = kind
    THEN Ok(advance(state, 1), t.value.text)
    ELSE NoMatch

ParseNumber(state) == TextOf(peek(state), "NumberLiteral", state)

ParseIdentifier(state) == TextOf(peek(state), "Identifier", state)

(* let (state, _) = ParseToken(...).parse(state)?; Ok((state, ()))         *)
Unit(r) == IF r.tag # "Ok" THEN r ELSE Ok(r.state, <<>>)

ParseKeyword(text, state) == Unit(ParseToken(Keyword(text), state))

ParseOperator(text, state) == Unit(ParseToken(Operator(text), state))

-----------------------------------------------------------------------------
(* The grammar, one operator per production: the parsers it runs in a row  *)
(* and the node it builds from their values.                               *)

ChunkOf(r) ==
    IF r.tag # "Ok" THEN r ELSE Ok(r.state, [statements |-> r.value])

(* A variant of ParseChunk that wants at least one statement.              *)
ChunkOfSome(r) ==
    IF r.tag # "Ok" THEN r
    ELSE IF r.value = <<>> THEN NoMatch
    ELSE Ok(r.state, [statements |-> r.value])

ParseChunkOneOrMore(state) == ChunkOfSome(ZeroOrMore(P("ParseStatement"), state))

(* chunk ::= {stat}                                                        *)
ParseChunk(state) == ChunkOf(ZeroOrMore(P("ParseStatement"), state))

ParseStatement(state) ==
    parse_first_of(state, <<
        <<P("ParseLocalAssignment"), "LocalAssignment">>,
        <<P("ParseFunctionCall"), "FunctionCall">>,
        <<P("ParseNumericFor"), "NumericFor">>,
        <<P("ParseWhileLoop"), "WhileLoop">>,
        <<P("ParseRepeatLoop"), "RepeatLoop">>,
        <<P("ParseFunctionDeclaration"), "FunctionDeclaration">> >>)

ParseExpression(state) ==
    parse_first_of(state, <<
        <<P("ParseNumber"), "Number">>,
        <<P("ParseFunctionCall"), "FunctionCall">>,
        <<P("ParseIdentifier"), "Name">>,
        <<P("ParseTableLiteral"), "Table">> >>)

(* The values of a local assignment: after `=' an expression list, and     *)
(* without `=' none.                                                       *)
ValuesAfter(eq, state) ==
    IF eq.tag = "Ok"
    THEN DelimitedOneOrMore(P("ParseExpression"), POperator(","), eq.state)
    ELSE Ok(state, <<>>)

LocalAssignmentValues(state) == ValuesAfter(ParseOperator("=", state), state)

LocalAssignmentParsers ==
    << PKeyword("local"),
       PDelimitedOneOrMore(P("ParseIdentifier"), POperator(",")),
       P("LocalAssignmentValues") >>

LocalAssignmentOf(r) ==
    IF r.tag # "Ok" THEN r
    ELSE Ok(r.state, [names |-> r.value[2], values |-> r.value[3]])

(* A variant of ParseLocalAssignment that commits at the keyword: once     *)
(* local is consumed, a failure to go on is an Error.                      *)
Committed(r, k) ==
    IF k.tag = "Ok" /\ r.tag = "NoMatch"
    THEN Error([text |-> "Expected a name after local", token |-> peek(k.state)])
    ELSE r

ParseLocalAssignmentCommitted(state) ==
    Committed(LocalAssignmentOf(Sequence(LocalAssignmentParsers, state)),
              ParseKeyword("local", state))

(* local namelist [`=' explist]                                            *)
ParseLocalAssignment(state) == LocalAssignmentOf(Sequence(LocalAssignmentParsers, state))

FunctionCallOf(r) ==
    IF r.tag # "Ok" THEN r
    ELSE Ok(r.state, [name_expression |-> [node |-> "Name", value |-> r.value[1]],
                      arguments |-> r.value[3]])

(* functioncall ::= Name `(' explist `)'                                   *)
ParseFunctionCall(state) ==
    FunctionCallOf(Sequence(
        << P("ParseIdentifier"),
           PToken(OpenParen),
           PDelimitedZeroOrMore(P("ParseExpression"), POperator(","), FALSE),
           PToken(CloseParen) >>, state))

StepOf(s) == IF s.tag # "Ok" THEN s ELSE Ok(s.state, Some(s.value))

(* A variant of NumericForStep that parses the step and forgets it.        *)
StepDropped(s) == IF s.tag # "Ok" THEN s ELSE Ok(s.state, None)

StepAfter(t, state) ==
    CASE t.some /\ t.value.kind = "Operator" ->
           IF t.value.text = ","
           THEN StepOf(parse(P("ParseExpression"), advance(state, 1)))
           ELSE NoMatch
      [] t.some /\ t.value.kind = "Keyword" ->
           IF t.value.text = "do" THEN Ok(state, None) ELSE NoMatch
      [] OTHER -> NoMatch

StepAfterDropped(t, state) ==
    CASE t.some /\ t.value.kind = "Operator" ->
           IF t.value.text = ","
           THEN StepDropped(parse(P("ParseExpression"), advance(state, 1)))
           ELSE NoMatch
      [] t.some /\ t.value.kind = "Keyword" ->
           IF t.value.text = "do" THEN Ok(state, None) ELSE NoMatch
      [] OTHER -> NoMatch

NumericForStepDropped(state) == StepAfterDropped(peek(state), state)

(* The look-ahead after the second bound of a numeric for: `,' then the    *)
(* step, or the keyword do and no step.                                    *)
NumericForStep(state) == StepAfter(peek(state), state)

(* for Name `=' exp `,' exp                                                *)
NumericForBounds ==
    << PKeyword("for"), P("ParseIdentifier"), POperator("="), P("ParseExpression"),
       POperator(","), P("ParseExpression") >>

NumericForOf(r) ==
    IF r.tag # "Ok" THEN r
    ELSE Ok(r.state, [var |-> r.value[2],
                      start |-> r.value[4],
                      end |-> r.value[6],
                      step |-> r.value[7],
                      body |-> r.value[9]])

(* for Name `=' exp `,' exp [`,' exp] do chunk end                         *)
ParseNumericFor(state) ==
    NumericForOf(Sequence(
        NumericForBounds \o
        << P("NumericForStep"), PKeyword("do"), P("ParseChunk"), PKeyword("end") >>, state))

WhileLoopOf(r) ==
    IF r.tag # "Ok" THEN r
    ELSE Ok(r.state, [condition |-> r.value[2], body |-> r.value[4]])

ParseWhileLoop(state) ==
    WhileLoopOf(Sequence(
        << PKeyword("while"), P("ParseExpression"), PKeyword("do"), P("ParseChunk"),
           PKeyword("end") >>, state))

RepeatLoopOf(r) ==
    IF r.tag # "Ok" THEN r
    ELSE Ok(r.state, [condition |-> r.value[4], body |-> r.value[2]])

ParseRepeatLoop(state) ==
    RepeatLoopOf(Sequence(
        << PKeyword("repeat"), P("ParseChunk"), PKeyword("until"), P("ParseExpression") >>,
        state))

(* The local flag of a function declaration: whether the optional leading  *)
(* keyword was there.                                                      *)
is_some(option) == option.some

FunctionDeclarationOf(r) ==
    IF r.tag # "Ok" THEN r
    ELSE Ok(r.state, [local |-> is_some(r.value[1]),
                      name |-> r.value[3],
                      parameters |-> r.value[5],
                      body |-> r.value[7]])

ParseFunctionDeclaration(state) ==
    FunctionDeclarationOf(Sequence(
        << POptional(PKeyword("local")),
           PKeyword("function"),
           P("ParseIdentifier"),
           PToken(OpenParen),
           PDelimitedZeroOrMore(P("ParseIdentifier"), POperator(","), FALSE),
           PToken(CloseParen),
           P("ParseChunk"),
           PKeyword("end") >>, state))

(* The key itself: a bare identifier, which becomes Expression::Name, else *)
(* `[' exp `]'.                                                            *)
BracketKeyOf(r) == IF r.tag # "Ok" THEN r ELSE Ok(r.state, r.value[2])

KeyAfter(id) ==
    IF id.tag # "Ok" THEN id
    ELSE IF id.value.some
    THEN Ok(id.state, [node |-> "Name", value |-> id.value.value])
    ELSE BracketKeyOf(Sequence(
             << POperator("["), P("ParseExpression"), POperator("]") >>, id.state))

TableKeyName(state) == KeyAfter(Optional(P("ParseIdentifier"), state))

TableKeyOf(r) == IF r.tag # "Ok" THEN r ELSE Ok(r.state, r.value[1])

(* A table key: the key, then `='.                                         *)
ParseTableKey(state) ==
    TableKeyOf(Sequence(<< P("TableKeyName"), POperator("=") >>, state))

TableValueOf(r) ==
    IF r.tag # "Ok" THEN r ELSE Ok(r.state, <<r.value[1], r.value[2]>>)

ParseTableValue(state) ==
    TableValueOf(Sequence(<< POptional(P("ParseTableKey")), P("ParseExpression") >>, state))

TableNoTrailing == FALSE

(* Whether the item list of a table literal may end in a separator.        *)
TableAllowTrailing == TRUE

TableLiteralOf(r) == IF r.tag # "Ok" THEN r ELSE Ok(r.state, [items |-> r.value[2]])

ParseTableLiteral(state) ==
    TableLiteralOf(Sequence(
        << POperator("{"),
           PDelimitedZeroOrMore(P("ParseTableValue"),
                                POr(<<POperator(","), POperator(";")>>),
                                TableAllowTrailing),
           POperator("}") >>, state))

(* p.parse(state)                                                          *)
parse(p, state) ==
    CASE p.name = "ParseToken" -> ParseToken(p.kind, state)
      [] p.name = "ParseKeyword" -> ParseKeyword(p.text, state)
      [] p.name = "ParseOperator" -> ParseOperator(p.text, state)
      [] p.name = "Or" -> Or(p.parsers, state)
      [] p.name = "Optional" -> Optional(p.parser, state)
      [] p.name = "DelimitedZeroOrMore" ->
           DelimitedZeroOrMore(p.parser, p.delimiter, p.allow_trailing, state)
      [] p.name = "DelimitedOneOrMore" -> DelimitedOneOrMore(p.parser, p.delimiter, state)
      [] p.name = "ParseNumber" -> ParseNumber(state)
      [] p.name = "ParseIdentifier" -> ParseIdentifier(state)
      [] p.name = "ParseChunk" -> ParseChunk(state)
      [] p.name = "ParseStatement" -> ParseStatement(state)
      [] p.name = "ParseExpression" -> ParseExpression(state)
      [] p.name = "ParseLocalAssignment" -> ParseLocalAssignment(state)
      [] p.name = "LocalAssignmentValues" -> LocalAssignmentValues(state)
      [] p.name = "ParseFunctionCall" -> ParseFunctionCall(state)
      [] p.name = "ParseNumericFor" -> ParseNumericFor(state)
      [] p.name = "NumericForStep" -> NumericForStep(state)
      [] p.name = "ParseWhileLoop" -> ParseWhileLoop(state)
      [] p.name = "ParseRepeatLoop" -> ParseRepeatLoop(state)
      [] p.name = "ParseFunctionDeclaration" -> ParseFunctionDeclaration(state)
      [] p.name = "TableKeyName" -> TableKeyName(state)
      [] p.name = "ParseTableKey" -> ParseTableKey(state)
      [] p.name = "ParseTableValue" -> ParseTableValue(state)
      [] p.name = "ParseTableLiteral" -> ParseTableLiteral(state)

-----------------------------------------------------------------------------
(* The entry point.                                                        *)

ResultOk(chunk) == [tag |-> "Ok", chunk |-> chunk]
ResultErr(message) == [tag |-> "Err", message |-> message]

NoErrorReported == [text |-> "No error reported", token |-> None]

(* format!("A token was left at the end of the stream: {:?}", token)       *)
TokenLeft(token) ==
    [text |-> "A token was left at the end of the stream: ", token |-> Some(token)]

(* The check for a token left after the chunk.                            *)
LeftoverOf(t, chunk) ==
    IF t.some THEN ResultErr(TokenLeft(t.value)) ELSE ResultOk(chunk)

(* Variants of from_chunk_result: one that does not look for a leftover    *)
(* token, one that drops the message of an Error.                          *)
from_chunk_result_unchecked(r) ==
    CASE r.tag = "NoMatch" -> ResultErr(NoErrorReported)
      [] r.tag = "Error" -> ResultErr(r.message)
      [] OTHER -> ResultOk(r.value)

from_chunk_result_generic(r) ==
    CASE r.tag = "NoMatch" -> ResultErr(NoErrorReported)
      [] r.tag = "Error" -> ResultErr(NoErrorReported)
      [] OTHER -> LeftoverOf(peek(r.state), r.value)

(* What parse_from_tokens makes of the chunk parser's result.              *)
from_chunk_result(r) ==
    CASE r.tag = "NoMatch" -> ResultErr(NoErrorReported)
      [] r.tag = "Error" -> ResultErr(r.message)
      [] OTHER -> LeftoverOf(peek(r.state), r.value)

parse_from_tokens(toks) == from_chunk_result(ParseChunk(ParseState_new(toks)))

-----------------------------------------------------------------------------
(* The node-id allocator (ast.rs): NEXT_ID starts at 1 and gen_id returns  *)
(* what one atomic fetch_add(1) read.                                      *)

NEXT_ID_INIT == 1

(* A variant of FetchAdd in two steps, a load and then a store.            *)
LoadThenStore(t) ==
    /\ \/ /\ pc[t] = "called"
          /\ ret' = [ret EXCEPT ![t] = next_id]
          /\ pc' = [pc EXCEPT ![t] = "loaded"]
          /\ UNCHANGED next_id
       \/ /\ pc[t] = "loaded"
          /\ next_id' = ret[t] + 1
          /\ pc' = [pc EXCEPT ![t] = "fetched"]
          /\ UNCHANGED ret
    /\ UNCHANGED <<issued, before>>
    /\ UNCHANGED <<tokens, shape, phase, result>>

(* AtomicUsize::fetch_add, one indivisible step of thread t: it reads the  *)
(* counter and stores the sum.                                             *)
FetchAdd(t) ==
    /\ pc[t] = "called"
    /\ ret' = [ret EXCEPT ![t] = next_id]
    /\ next_id' = next_id + 1
    /\ pc' = [pc EXCEPT ![t] = "fetched"]
    /\ UNCHANGED <<issued, before>>
    /\ UNCHANGED <<tokens, shape, phase, result>>

-----------------------------------------------------------------------------
(* Bounds of the model.                                                    *)

MaxFree == 3        \* free tokens after a prefix
MaxForTail == 3     \* free tokens after the bounds and steps of a numeric for
MaxNumber == 2      \* number literals "1" .. MaxNumber as operands
MaxItems == 3       \* items of a table literal
MaxParams == 2      \* parameters of a function declaration
MaxCalls == 4       \* gen_id calls, all threads together

(* The threads, each one a parse that allocates node ids.                  *)
Threads == {"parse A", "parse B", "parse C"}

SeqsUpTo(S, n) == UNION {[1 .. k -> S] : k \in 0 .. n}

RECURSIVE Flatten(_)
Flatten(seqs) == IF seqs = <<>> THEN <<>> ELSE Head(seqs) \o Flatten(Tail(seqs))

NumberText(n) == CASE n = 1 -> "1" [] n = 2 -> "2" [] n = 3 -> "3" [] n = 4 -> "4" [] OTHER -> "5"
Numbers == {NumberText(n) : n \in 1 .. MaxNumber}

IdleIds ==
    /\ next_id = NEXT_ID_INIT
    /\ pc = [t \in Threads |-> "idle"]
    /\ ret = [t \in Threads |-> 0]
    /\ issued = [t \in Threads |-> <<>>]
    /\ before = [t \in Threads |-> {}]

Ready(toks, sh) ==
    /\ tokens = toks
    /\ shape = sh
    /\ phase = "ready"
    /\ result = None
    /\ IdleIds

(* Inputs: a prefix and then any few tokens.                               *)
FreePrefixes ==
    { <<>>,
      <<Identifier("f"), OpenParen, CloseParen>>,
      <<Identifier("f"), OpenParen, NumberLiteral("1"), Operator(",")>>,
      <<Keyword("while"), Identifier("x"), Keyword("do")>>,
      <<Keyword("repeat")>>,
      <<Keyword("local"), Identifier("x"), Operator("="), NumberLiteral("1")>>,
      <<Keyword("function"), Identifier("f"), OpenParen, CloseParen>>,
      <<Keyword("for"), Identifier("i"), Operator("="), NumberLiteral("1"),
        Operator(","), NumberLiteral("2")>> }

FreeAlphabet ==
    { Keyword("local"), Keyword("end"), Keyword("until"), Keyword("do"),
      Identifier("x"), OpenParen, CloseParen, Operator(",") }

InitFree ==
    \E prefix \in FreePrefixes, tail \in SeqsUpTo(FreeAlphabet, MaxFree) :
        Ready(prefix \o tail, [family |-> "free", prefix |-> prefix, tail |-> tail])

(* Inputs: a numeric for, its two bounds written, then steps and any few   *)
(* tokens; alone or as the body of a while loop.                           *)
ForWraps ==
    { [pre |-> <<>>, post |-> <<>>],
      [pre |-> <<Keyword("while"), Identifier("x"), Keyword("do")>>,
       post |-> <<Keyword("end")>>] }

ForStarts == { <<NumberLiteral("1")>>, <<Identifier("f"), OpenParen, CloseParen>> }

ForEnds == { <<NumberLiteral("2")>>, <<Identifier("n")>>, <<Operator("{"), Operator("}")>> }

ForSteps ==
    { <<>>,
      <<Operator(","), NumberLiteral("3")>>,
      <<Operator(","), NumberLiteral("3"), Operator(","), NumberLiteral("4")>> }

ForAlphabet ==
    { Operator(","), NumberLiteral("3"), Keyword("do"), Keyword("end"),
      Operator("{"), Identifier("x") }

ForHead(start, end) ==
    <<Keyword("for"), Identifier("i"), Operator("=")>> \o start \o <<Operator(",")>> \o end

InitFor ==
    \E wrap \in ForWraps, start \in ForStarts, end \in ForEnds, steps \in ForSteps,
       tail \in SeqsUpTo(ForAlphabet, MaxForTail) :
        Ready(wrap.pre \o ForHead(start, end) \o steps \o tail \o wrap.post,
              [family |-> "for", pre |-> wrap.pre, start |-> start, end |-> end,
               steps |-> steps, tail |-> tail])

(* Inputs: local x = a [op1 b [op2 c]].                                    *)
BinaryOperators == {"+", "-", "*", "/", "^", ".."}

InitExpr ==
    \E a \in Numbers, rest \in SeqsUpTo(BinaryOperators \X Numbers, 2) :
        Ready(<<Keyword("local"), Identifier("x"), Operator("="), NumberLiteral(a)>>
                \o Flatten([i \in 1 .. Len(rest) |->
                               <<Operator(rest[i][1]), NumberLiteral(rest[i][2])>>]),
              [family |-> "expr", a |-> a, rest |-> rest])

(* Inputs: local t = { item sep item ... [sep] }.                          *)
ItemKinds == {"number", "name", "name key", "bracket key", "bracket sum"}

ItemTokens(kind) ==
    CASE kind = "number" -> <<NumberLiteral("1")>>
      [] kind = "name" -> <<Identifier("x")>>
      [] kind = "name key" -> <<Identifier("x"), Operator("="), NumberLiteral("1")>>
      [] kind = "bracket key" ->
           <<Operator("["), Identifier("x"), Operator("]"), Operator("="), NumberLiteral("2")>>
      [] kind = "bracket sum" ->
           <<Operator("["), NumberLiteral("2"), Operator("+"), NumberLiteral("2"),
             Operator("]"), Operator("="), NumberLiteral("2")>>

Separators == {",", ";"}

(* item, sep, item, ..., item *)
Joined(items, seps) ==
    Flatten([i \in 1 .. Len(items) |->
                IF i = 1 THEN ItemTokens(items[i])
                ELSE <<Operator(seps[i - 1])>> \o ItemTokens(items[i])])

TableTokens(items, seps, trailing) ==
    <<Keyword("local"), Identifier("t"), Operator("="), Operator("{")>>
        \o Joined(items, seps) \o trailing \o <<Operator("}")>>

InitTable ==
    \E items \in SeqsUpTo(ItemKinds, MaxItems) :
    \E seps \in [1 .. (IF Len(items) = 0 THEN 0 ELSE Len(items) - 1) -> Separators],
       trailing \in {<<>>} \cup {<<Operator(s)>> : s \in Separators} :
        Ready(TableTokens(items, seps, trailing),
              [family |-> "table", items |-> items, seps |-> seps, trailing |-> trailing])

(* Inputs: [local] function f ( params ) body end.                         *)
FuncBodies ==
    { <<>>,
      <<Identifier("g"), OpenParen, CloseParen>>,
      <<Keyword("local"), Identifier("y")>>,
      <<Keyword("local"), Identifier("y"), Operator("="), NumberLiteral("1")>>,
      <<Keyword("while"), Identifier("x"), Keyword("do"), Keyword("end")>>,
      <<Keyword("repeat"), Keyword("until"), Identifier("x")>>,
      <<Keyword("local"), Keyword("function"), Identifier("g"), OpenParen, CloseParen,
        Keyword("end")>> }

ParamTokens(params) ==
    Flatten([i \in 1 .. Len(params) |->
                IF i = 1 THEN <<Identifier(params[i])>>
                ELSE <<Operator(","), Identifier(params[i])>>])

FuncTokens(local, params, body) ==
    (IF local THEN <<Keyword("local")>> ELSE <<>>)
        \o <<Keyword("function"), Identifier("f"), OpenParen>>
        \o ParamTokens(params) \o <<CloseParen>> \o body \o <<Keyword("end")>>

InitFunc ==
    \E local \in BOOLEAN, params \in SeqsUpTo({"a", "b"}, MaxParams), body \in FuncBodies :
        Ready(FuncTokens(local, params, body),
              [family |-> "func", local |-> local, params |-> params, body |-> body])

-----------------------------------------------------------------------------
(* The one operation of the parser.                                        *)
Parse ==
    /\ phase = "ready"
    /\ result' = parse_from_tokens(tokens)
    /\ phase' = "done"
    /\ UNCHANGED <<tokens, shape>>
    /\ UNCHANGED idVars

(* The ids gen_id has returned so far, and the calls begun so far.         *)
Range(seq) == {seq[i] : i \in DOMAIN seq}

Returned == UNION {Range(issued[t]) : t \in Threads}

RECURSIVE Sum(_, _)
Sum(f, S) == IF S = {} THEN 0 ELSE LET x == CHOOSE y \in S : TRUE IN f[x] + Sum(f, S \ {x})

Begun == Sum([t \in Threads |-> Len(issued[t]) + (IF pc[t] = "idle" THEN 0 ELSE 1)], Threads)

(* gen_id, as thread t runs it: the call, the fetch_add, the return.       *)
Call(t) ==
    /\ pc[t] = "idle"
    /\ Begun < MaxCalls
    /\ pc' = [pc EXCEPT ![t] = "called"]
    /\ before' = [before EXCEPT ![t] = Returned]
    /\ UNCHANGED <<next_id, ret, issued>>
    /\ UNCHANGED parseVars

Return(t) ==
    /\ pc[t] = "fetched"
    /\ issued' = [issued EXCEPT ![t] = Append(@, ret[t])]
    /\ pc' = [pc EXCEPT ![t] = "idle"]
    /\ UNCHANGED <<next_id, ret, before>>
    /\ UNCHANGED parseVars

-----------------------------------------------------------------------------
(* Specifications.  Spec: the parser on the free inputs and on the         *)
(* function declarations.  ForSpec, ExprSpec, TableSpec, FuncSpec: the     *)
(* parser on one family of inputs.  IdSpec: the threads that call gen_id.  *)

Init == InitFree \/ InitFunc

Next == Parse

Spec == Init /\ [][Next]_vars

ForSpec == InitFor /\ [][Next]_vars

ExprSpec == InitExpr /\ [][Next]_vars

TableSpec == InitTable /\ [][Next]_vars

FuncSpec == InitFunc /\ [][Next]_vars

IdInit == Ready(<<>>, [family |-> "ids"])

IdNext == \E t \in Threads : Call(t) \/ FetchAdd(t) \/ Return(t)

IdSpec == IdInit /\ [][IdNext]_vars

-----------------------------------------------------------------------------
(* Binary operators (ast.rs).                                              *)

BinaryOpKind(text) ==
    CASE text = "+" -> "Add"
      [] text = "-" -> "Subtract"
      [] text = "*" -> "Multiply"
      [] text = "/" -> "Divide"
      [] text = "^" -> "Exponent"
      [] text = ".." -> "Concat"

precedence(kind) ==
    CASE kind = "Concat" -> 8
      [] kind \in {"Add", "Subtract"} -> 9
      [] kind \in {"Multiply", "Divide"} -> 10
      [] kind = "Exponent" -> 12

is_right_associative(kind) == kind \in {"Exponent", "Concat"}

-----------------------------------------------------------------------------
(* What the properties below speak of.                                     *)

At(p) == [tokens |-> tokens, position |-> p]

ChunkResult == ParseChunk(ParseState_new(tokens))

Number(text) == [node |-> "Number", value |-> text]
Name(text) == [node |-> "Name", value |-> text]
BinaryOp(kind, left, right) ==
    [node |-> "BinaryOp", value |-> [operator |-> kind, left |-> left, right |-> right]]

(* C1: parse_from_tokens returns Ok(chunk) only if the chunk parser ended  *)
(* with its cursor at the end of the token stream, and the chunk is the    *)
(* one it built; when a token is left after the chunk parser stops, the    *)
(* result is Err with a message that names the first leftover token.       *)
C1_WholeStreamOrErr ==
    phase = "done" =>
        LET r == ChunkResult IN
        /\ result.tag = "Ok" =>
              /\ r.tag = "Ok"
              /\ r.state.position = Len(tokens)
              /\ result.chunk = r.value
        /\ (r.tag = "Ok" /\ r.state.position < Len(tokens)) =>
              /\ result.tag = "Err"
              /\ result.message.token = Some(tokens[r.state.position + 1])

(* C1 happens: f ( ) ) is a complete call and a stray `)', and the result  *)
(* is Err naming the `)'.                                                  *)
C1_Witness ==
    /\ phase = "done"
    /\ tokens = <<Identifier("f"), OpenParen, CloseParen, CloseParen>>
    /\ ChunkResult.tag = "Ok"
    /\ Len(ChunkResult.value.statements) = 1
    /\ result.tag = "Err"
    /\ result.message.token = Some(CloseParen)

(* C2, as claimed: once for Name = exp , exp is consumed, the numeric-for  *)
(* parser never reports NoMatch (it succeeds or reports Error).            *)
C2_NeverNoMatchAfterBounds ==
    (phase = "done" /\ shape.family = "for") =>
        LET s == At(Len(shape.pre)) IN
        Sequence(NumericForBounds, s).tag = "Ok" => ParseNumericFor(s).tag \in {"Ok", "Error"}

(* The tree C3 claims for a [op1 b [op2 c]].                               *)
ClaimedExpression(a, rest) ==
    CASE Len(rest) = 0 -> Number(a)
      [] Len(rest) = 1 -> BinaryOp(BinaryOpKind(rest[1][1]), Number(a), Number(rest[1][2]))
      [] OTHER ->
           LET op1 == BinaryOpKind(rest[1][1])
               op2 == BinaryOpKind(rest[2][1])
               b == Number(rest[1][2])
               c == Number(rest[2][2])
           IN  IF \/ precedence(op2) > precedence(op1)
                  \/ precedence(op2) = precedence(op1) /\ is_right_associative(op1)
               THEN BinaryOp(op1, Number(a), BinaryOp(op2, b, c))
               ELSE BinaryOp(op2, BinaryOp(op1, Number(a), b), c)

(* C3, as claimed: local x = a op1 b op2 c parses to one local assignment  *)
(* whose value is the binary-operator tree that precedence and             *)
(* associativity give.                                                     *)
C3_PrecedenceTree ==
    (phase = "done" /\ shape.family = "expr") =>
        result = ResultOk([statements |->
                    << [node |-> "LocalAssignment",
                        value |-> [names |-> <<"x">>,
                                   values |-> <<ClaimedExpression(shape.a, shape.rest)>>]] >>])

(* The ids held by the threads whose fetch_add is done and not returned.   *)
Fetched == {t \in Threads : pc[t] = "fetched"}

(* C4: no two gen_id calls get the same value, whatever the interleaving;  *)
(* a call that starts after another has returned gets a larger value; the  *)
(* ids of one thread are distinct (increasing) and the ids of two threads  *)
(* are disjoint.                                                           *)
C4_UniqueIds ==
    /\ \A t \in Threads : \A i, j \in DOMAIN issued[t] : i < j => issued[t][i] < issued[t][j]
    /\ \A t, u \in Threads : t # u => Range(issued[t]) \cap Range(issued[u]) = {}
    /\ \A t \in Fetched : ret[t] \notin Returned
    /\ \A t, u \in Fetched : t # u => ret[t] # ret[u]
    /\ \A t \in Fetched : \A v \in before[t] : ret[t] > v
    /\ \A t \in Threads : \A v \in Range(issued[t]) : v >= NEXT_ID_INIT

(* C4 happens: two calls are in flight at once, both past their fetch_add, *)
(* while the third thread has already got an id.                           *)
C4_Witness ==
    /\ pc["parse A"] = "fetched"
    /\ pc["parse B"] = "fetched"
    /\ issued["parse C"] # <<>>
    /\ before["parse A"] # {}

(* C5: the result of parse_from_tokens is Ok or Err; an Error(message) of   *)
(* the chunk parser comes out as Err with that message, and a NoMatch      *)
(* would come out as Err with the fixed text.                              *)
C5_NoMatchNeverSurfaces ==
    phase = "done" =>
        /\ result.tag \in {"Ok", "Err"}
        /\ ChunkResult.tag = "Error" => result = ResultErr(ChunkResult.message)
        /\ from_chunk_result(NoMatch) =
               ResultErr([text |-> "No error reported", token |-> None])

(* C5 happens: f ( 1 , ) makes the chunk parser abort with an Error, which *)
(* is the Err returned.                                                    *)
C5_Witness ==
    /\ phase = "done"
    /\ tokens = <<Identifier("f"), OpenParen, NumberLiteral("1"), Operator(","), CloseParen>>
    /\ ChunkResult.tag = "Error"
    /\ result = ResultErr(ChunkResult.message)

(* The table literal of a result that is one local assignment of one       *)
(* table.                                                                  *)
TableOf(res) == res.chunk.statements[1].value.values[1].value

(* The value an item of each kind is written with.                         *)
ItemValue(kind) ==
    CASE kind = "number" -> Number("1")
      [] kind = "name" -> Name("x")
      [] kind = "name key" -> Number("1")
      [] kind \in {"bracket key", "bracket sum"} -> Number("2")

(* C6: a table literal with one separator before the closing brace parses  *)
(* as the literal without it does: the same result, and, for items the     *)
(* expression parser takes, a table of the n items' entries in order.      *)
C6_TrailingSeparator ==
    (phase = "done" /\ shape.family = "table"
        /\ Len(shape.items) >= 1 /\ shape.trailing # <<>>) =>
        LET without == parse_from_tokens(TableTokens(shape.items, shape.seps, <<>>)) IN
        /\ result = without
        /\ "bracket sum" \notin Range(shape.items) =>
              /\ result.tag = "Ok"
              /\ Len(result.chunk.statements) = 1
              /\ Len(TableOf(result).items) = Len(shape.items)
              /\ \A i \in DOMAIN shape.items :
                    TableOf(result).items[i][2] = ItemValue(shape.items[i])
              /\ \A i \in DOMAIN shape.items :
                    TableOf(result).items[i][1].some
                        <=> shape.items[i] \in {"name key", "bracket key"}

(* C6 happens: { 1 , x = 1 , x , } and { 1 ; 1 ; 1 ; } parse to three        *)
(* entries.                                                                *)
C6_Witness ==
    /\ phase = "done"
    /\ shape.family = "table"
    /\ shape.items \in {<<"number", "name key", "name">>, <<"number", "number", "number">>}
    /\ shape.trailing # <<>>
    /\ result.tag = "Ok"
    /\ Len(TableOf(result).items) = 3

(* Whether key is the key C7 claims for an item of a kind: none for a      *)
(* positional item, the name x for x =, the expression for [ exp ] =.      *)
ClaimedKey(kind, key) ==
    CASE kind \in {"number", "name"} -> key = None
      [] kind = "name key" -> key.some /\ key.value.value = "x"
      [] kind = "bracket key" -> key = Some(Name("x"))
      [] kind = "bracket sum" -> key = Some(BinaryOp("Add", Number("2"), Number("2")))

(* C7, as claimed: every item gives one entry, in source order: a Name key *)
(* for Name =, an Expression key for [ exp ] =, no key otherwise; so the   *)
(* key of x = is not the key of [ x ] =.                                   *)
C7_KeyedEntries ==
    (phase = "done" /\ shape.family = "table" /\ shape.trailing = <<>>) =>
        /\ result.tag = "Ok"
        /\ Len(TableOf(result).items) = Len(shape.items)
        /\ \A i \in DOMAIN shape.items :
              /\ ClaimedKey(shape.items[i], TableOf(result).items[i][1])
              /\ TableOf(result).items[i][2] = ItemValue(shape.items[i])
        /\ \A i, j \in DOMAIN shape.items :
              (shape.items[i] = "name key" /\ shape.items[j] = "bracket key") =>
                  TableOf(result).items[i][1] # TableOf(result).items[j][1]

(* C8: a numeric for that parses has step None exactly when the token      *)
(* after its second bound is the keyword do, and Some(e) exactly when it   *)
(* is a comma, e being the expression parsed right after the comma; the    *)
(* node of the result is that node.                                        *)
C8_StepWritten ==
    (phase = "done" /\ shape.family = "for") =>
        LET p == Len(shape.pre)
            r == ParseNumericFor(At(p))
            after == At(p + 3 + Len(shape.start) + 1 + Len(shape.end))
            t == peek(after)
        IN  r.tag = "Ok" =>
              /\ r.value.step = None <=> t = Some(Keyword("do"))
              /\ r.value.step # None <=> t = Some(Operator(","))
              /\ t = Some(Operator(",")) =>
                    /\ ParseExpression(advance(after, 1)).tag = "Ok"
                    /\ r.value.step = Some(ParseExpression(advance(after, 1)).value)
              /\ result.tag = "Ok" =>
                    r.value = (IF shape.pre = <<>>
                               THEN result.chunk.statements[1].value
                               ELSE result.chunk.statements[1].value.body.statements[1].value)

(* C8 happens: for i = 1 , 2 , 3 do end inside a while loop parses with    *)
(* step 3, and for i = 1 , 2 do end parses with no step.                   *)
C8_Witness ==
    /\ phase = "done"
    /\ shape.family = "for"
    /\ result.tag = "Ok"
    /\ \/ /\ shape.pre # <<>>
          /\ shape.steps = <<Operator(","), NumberLiteral("3")>>
          /\ result.chunk.statements[1].value.body.statements[1].value.step
                 = Some(Number("3"))
       \/ /\ shape.pre = <<>>
          /\ shape.steps = <<>>
          /\ shape.tail = <<Keyword("do"), Keyword("end")>>
          /\ result.chunk.statements[1].value.step = None

(* Whether statements are what the statement parser gives, one after the   *)
(* other, from state to final.                                             *)
RECURSIVE InSourceOrder(_, _, _)
InSourceOrder(state, statements, final) ==
    IF statements = <<>> THEN state = final
    ELSE LET q == ParseStatement(state) IN
         /\ q.tag = "Ok"
         /\ q.value = Head(statements)
         /\ InSourceOrder(q.state, Tail(statements), final)

(* C9: from any position the chunk parser does not report NoMatch; when it *)
(* succeeds it has the statements in source order and its cursor is at the *)
(* first position where no statement matches; the end of a while loop and  *)
(* the until of a repeat loop are left for the loop to match; no tokens    *)
(* give Ok with no statements.                                             *)
C9_ChunkStops ==
    phase = "done" =>
        /\ \A p \in 0 .. Len(tokens) :
              LET r == ParseChunk(At(p)) IN
              /\ r.tag # "NoMatch"
              /\ r.tag = "Ok" =>
                    /\ ParseStatement(r.state).tag = "NoMatch"
                    /\ InSourceOrder(At(p), r.value.statements, r.state)
        /\ \A p \in 0 .. Len(tokens) :
              LET w == ParseWhileLoop(At(p)) IN
              w.tag = "Ok" =>
                  LET body == ParseChunk(advance(ParseExpression(At(p + 1)).state, 1)) IN
                  /\ peek(body.state) = Some(Keyword("end"))
                  /\ w.value.body = body.value
                  /\ w.state = advance(body.state, 1)
        /\ \A p \in 0 .. Len(tokens) :
              LET w == ParseRepeatLoop(At(p)) IN
              w.tag = "Ok" =>
                  LET body == ParseChunk(At(p + 1)) IN
                  /\ peek(body.state) = Some(Keyword("until"))
                  /\ w.value.body = body.value
        /\ tokens = <<>> => result = ResultOk([statements |-> <<>>])

(* C9 happens: in function f ( ) while x do end end the chunk of the loop  *)
(* stops at the first end and the chunk of the function at the second,     *)
(* and the parse is Ok.                                                    *)
C9_Witness ==
    /\ phase = "done"
    /\ shape.family = "func"
    /\ shape.body = <<Keyword("while"), Identifier("x"), Keyword("do"), Keyword("end")>>
    /\ result.tag = "Ok"
    /\ Len(result.chunk.statements[1].value.body.statements) = 1
    /\ result.chunk.statements[1].value.body.statements[1].value.body.statements = <<>>

(* C10: [local] function f ( params ) body end parses to one               *)
(* FunctionDeclaration whose local flag says whether local was written;    *)
(* with local written, the local-assignment alternative reports NoMatch    *)
(* and the function declaration is parsed from the keyword local.          *)
C10_LocalFunction ==
    (phase = "done" /\ shape.family = "func") =>
        LET body == ParseChunk(ParseState_new(shape.body)) IN
        /\ body.tag = "Ok"
        /\ body.state.position = Len(shape.body)
        /\ result = ResultOk([statements |->
                       << [node |-> "FunctionDeclaration",
                           value |-> [local |-> shape.local,
                                      name |-> "f",
                                      parameters |-> shape.params,
                                      body |-> body.value]] >>])
        /\ shape.local =>
              /\ ParseLocalAssignment(ParseState_new(tokens)).tag = "NoMatch"
              /\ ParseFunctionDeclaration(ParseState_new(tokens)).tag = "Ok"

(* C10 happens: local function f ( a , b ) ... end with a body that itself *)
(* declares a local function.                                              *)
C10_Witness ==
    /\ phase = "done"
    /\ shape.family = "func"
    /\ shape.local
    /\ shape.params = <<"a", "b">>
    /\ Len(shape.body) = 6
    /\ result.tag = "Ok"
    /\ result.chunk.statements[1].value.local

=============================================================================
